---------------------------- MODULE Spec2Model ----------------------------
(***************************************************************************)
(* Model of the SecureWipe Tauri backend (desktop-app/src-tauri/src/lib.rs) *)
(*                                                                         *)
(* Strings are sequences of Unicode code points, so that char predicates   *)
(* (is_alphanumeric, is_numeric), byte lengths (str::len) and substring    *)
(* searches are computed the way the Rust code computes them.              *)
(***************************************************************************)
EXTENDS Integers, Sequences, FiniteSets, TLC

VARIABLES
    device_id,   \* WipeState.device_id : Option<String>, <<>> = None, <<s>> = Some(s)
    pc,          \* position of every command invocation / callback
    loc,         \* locals of every run_wipe / abort_wipe / cleanup_on_exit invocation
    child,       \* the overwrite child process of every run_wipe invocation
    events,      \* what window.emit has delivered, in order
    commands,    \* every subprocess launch attempted by run_wipe, abort_wipe, cleanup_on_exit
    last_call,   \* the latest invocation of a command that keeps no state, with its subprocesses
    fn_in,       \* argument of the pure function under test
    fn_out       \* its result

vars == <<device_id, pc, loc, child, events, commands, last_call, fn_in, fn_out>>

(***************************************************************************)
(* Bounds of the model                                                     *)
(***************************************************************************)
MaxLines == 1       \* stdout lines one child produces
MaxShort == 2       \* every string over Alphabet up to this length is a sanitizer input
MaxRows == 2        \* lines `adb devices` prints after the first one
MaxStrip == 4       \* every string over StripAlphabet up to this length is a strip_ansi input
MaxWipeLines == 3   \* stdout lines of the child when one wipe is followed alone

(***************************************************************************)
(* Characters                                                              *)
(***************************************************************************)
LF == 10
TAB == 9
SP == 32
ESC == 27
MAX_ID_LEN == 64

Str_a == <<97>>
Str_b == <<98>>

\* The characters strings are drawn from: ASCII letters, digits, the four
\* punctuation marks of the allow-list, shell metacharacters, white space, a
\* control character, and non-ASCII letters and digits.
\*   a Z 5 : . - _   SP ; $ /   LF   e-acute(U+00E9)  arabic-indic 3 (U+0663)
Alphabet == {97, 90, 53, 58, 46, 45, 95, SP, 59, 36, 47, LF, 233, 1635}

\* char::is_alphabetic / char::is_numeric are Unicode-aware: on Alphabet, the
\* non-ASCII code points U+00E9 (Ll) and U+0663 (Nd) satisfy them as well.
is_alphabetic(c) == c \in 65..90 \/ c \in 97..122 \/ c = 233

is_numeric(c) == c \in 48..57 \/ c = 1635

is_alphanumeric(c) == is_alphabetic(c) \/ is_numeric(c)

\* char::len_utf8
len_utf8(c) == IF c < 128 THEN 1 ELSE IF c < 2048 THEN 2 ELSE IF c < 65536 THEN 3 ELSE 4

\* str::len : the length in bytes of the UTF-8 encoding
RECURSIVE str_len(_)
str_len(s) == IF s = <<>> THEN 0 ELSE len_utf8(Head(s)) + str_len(Tail(s))

(***************************************************************************)
(* sanitize_device_id                                                      *)
(***************************************************************************)
Ok(v) == [ok |-> TRUE, val |-> v, err |-> ""]

Err(e) == [ok |-> FALSE, val |-> <<>>, err |-> e]

sanitize_valid_char(c) == is_alphanumeric(c) \/ c = 58 \/ c = 46 \/ c = 45 \/ c = 95

\* the length test off by one
sanitize_device_id_short(s) ==
    LET valid == \A i \in 1..Len(s) : sanitize_valid_char(s[i])
    IN  IF ~valid \/ s = <<>> \/ str_len(s) >= MAX_ID_LEN
        THEN Err("Invalid device ID format")
        ELSE Ok(s)

sanitize_device_id(s) ==
    LET valid == \A i \in 1..Len(s) : sanitize_valid_char(s[i])
    IN  IF ~valid \/ s = <<>> \/ str_len(s) > MAX_ID_LEN
        THEN Err("Invalid device ID format")
        ELSE Ok(s)


(***************************************************************************)
(* String primitives of the Rust standard library, on code-point sequences *)
(***************************************************************************)
\* char::is_whitespace on the characters used here (TAB, LF, VT, FF, CR, SP)
is_whitespace(c) == c \in 9..13 \/ c = SP

SubStr(s, from, to) == IF to < from THEN <<>> ELSE SubSeq(s, from, to)

MatchAt(s, i, pat) ==
    /\ i >= 1
    /\ i + Len(pat) - 1 <= Len(s)
    /\ \A k \in 1..Len(pat) : s[i + k - 1] = pat[k]

\* str::contains
contains(s, pat) == \E i \in 1..(Len(s) + 1) : MatchAt(s, i, pat)

\* str::find : position of the first match, 0 for None
find(s, pat) ==
    IF contains(s, pat)
    THEN CHOOSE i \in 1..(Len(s) + 1) :
            MatchAt(s, i, pat) /\ \A j \in 1..(i - 1) : ~MatchAt(s, j, pat)
    ELSE 0

\* str::trim
RECURSIVE trim_start(_)
trim_start(s) ==
    IF s # <<>> /\ is_whitespace(Head(s)) THEN trim_start(Tail(s)) ELSE s

RECURSIVE trim_end(_)
trim_end(s) ==
    IF s # <<>> /\ is_whitespace(s[Len(s)]) THEN trim_end(SubStr(s, 1, Len(s) - 1)) ELSE s

trim(s) == trim_end(trim_start(s))

IsAsciiDigit(c) == c \in 48..57

RECURSIVE DigitsValue(_)
DigitsValue(s) ==
    IF s = <<>> THEN 0 ELSE 10 * DigitsValue(SubStr(s, 1, Len(s) - 1)) + (s[Len(s)] - 48)

\* str::parse::<u32> : an optional '+', then one or more ASCII digits, no overflow.
\* Digit runs are bounded by the line length of the model (under 10 digits), so
\* the value never exceeds u32::MAX here.
parse_u32(s) ==
    LET body == IF s # <<>> /\ Head(s) = 43 THEN Tail(s) ELSE s
    IN  IF body # <<>> /\ Len(body) <= 9 /\ \A i \in 1..Len(body) : IsAsciiDigit(body[i])
        THEN [ok |-> TRUE, val |-> DigitsValue(body)]
        ELSE [ok |-> FALSE, val |-> 0]

(***************************************************************************)
(* parse_adb_devices                                                       *)
(***************************************************************************)
\* str::lines : split at LF, a final empty piece is dropped, a trailing CR of a
\* line is removed
RECURSIVE lines(_)
lines(s) ==
    IF s = <<>> THEN <<>>
    ELSE LET nl == find(s, <<LF>>)
             raw == IF nl = 0 THEN s ELSE SubStr(s, 1, nl - 1)
             line == IF raw # <<>> /\ raw[Len(raw)] = 13
                     THEN SubStr(raw, 1, Len(raw) - 1) ELSE raw
             rest == IF nl = 0 THEN <<>> ELSE SubStr(s, nl + 1, Len(s))
         IN  <<line>> \o lines(rest)

\* str::split_whitespace : the maximal runs of non-white-space characters
RECURSIVE split_whitespace(_)
split_whitespace(s) ==
    LET t == trim_start(s)
    IN  IF t = <<>> THEN <<>>
        ELSE LET ws == {i \in 1..Len(t) : is_whitespace(t[i])}
                 stop == IF ws = {} THEN Len(t) + 1
                         ELSE CHOOSE i \in ws : \A j \in ws : i <= j
             IN  <<SubStr(t, 1, stop - 1)>> \o split_whitespace(SubStr(t, stop, Len(t)))

Str_device == <<100, 101, 118, 105, 99, 101>>

\* "List of devices attached"
Str_header == <<76, 105, 115, 116, 32, 111, 102, 32, 100, 101, 118, 105, 99, 101, 115, 32, 97, 116, 116, 97, 99, 104, 101, 100>>

RECURSIVE filter_device_rows(_)
filter_device_rows(ls) ==
    IF ls = <<>> THEN <<>>
    ELSE LET parts == split_whitespace(Head(ls))
         IN  (IF Len(parts) >= 2 /\ parts[2] = Str_device
              THEN << <<parts[1], parts[2]>> >> ELSE <<>>)
             \o filter_device_rows(Tail(ls))

\* the first line not skipped
parse_adb_devices_noskip(output) == filter_device_rows(lines(output))

parse_adb_devices(output) ==
    LET ls == lines(output)
    IN  filter_device_rows(IF ls = <<>> THEN <<>> ELSE Tail(ls))

(***************************************************************************)
(* strip_ansi                                                              *)
(***************************************************************************)
\* the terminating 'm' left in the result
RECURSIVE strip_ansi_from_keep_m(_, _)
strip_ansi_from_keep_m(s, i) ==
    IF i > Len(s) THEN <<>>
    ELSE IF s[i] = ESC
    THEN IF i + 1 <= Len(s) /\ s[i + 1] = 91
         THEN LET ms == {j \in (i + 2)..Len(s) : s[j] = 109}
              IN  IF ms = {} THEN <<>>
                  ELSE strip_ansi_from_keep_m(s, CHOOSE j \in ms : \A k \in ms : j <= k)
         ELSE strip_ansi_from_keep_m(s, i + 1)
    ELSE <<s[i]>> \o strip_ansi_from_keep_m(s, i + 1)

RECURSIVE strip_ansi_from(_, _)
strip_ansi_from(s, i) ==
    IF i > Len(s) THEN <<>>
    ELSE IF s[i] = ESC
    THEN IF i + 1 <= Len(s) /\ s[i + 1] = 91
         THEN LET ms == {j \in (i + 2)..Len(s) : s[j] = 109}
              IN  IF ms = {} THEN <<>>
                  ELSE strip_ansi_from(s, (CHOOSE j \in ms : \A k \in ms : j <= k) + 1)
         ELSE strip_ansi_from(s, i + 1)
    ELSE <<s[i]>> \o strip_ansi_from(s, i + 1)

strip_ansi(s) == strip_ansi_from(s, 1)

(***************************************************************************)
(* parse_progress_line                                                     *)
(*                                                                         *)
(* percent is an f32 in the code; the model keeps it as the exact fraction *)
(* [num, den] in lowest terms (f32 rounding is not modelled).              *)
(***************************************************************************)
Str_Pass == <<80, 97, 115, 115>>
Str_Pass_sp == <<80, 97, 115, 115, SP>>
Str_Passes_completed == <<80, 97, 115, 115, 101, 115, SP, 99, 111, 109, 112, 108, 101, 116, 101, 100, 58>>
Str_complete == <<99, 111, 109, 112, 108, 101, 116, 101>>
Str_percent == <<37>>

RECURSIVE GCD(_, _)
GCD(a, b) == IF b = 0 THEN a ELSE GCD(b, a % b)

Frac(n, d) == LET g == GCD(n, d) IN [num |-> n \div g, den |-> d \div g]

RECURSIVE Pow10(_)
Pow10(n) == IF n = 0 THEN 1 ELSE 10 * Pow10(n - 1)

RECURSIVE take_while_numeric(_)
take_while_numeric(s) ==
    IF s # <<>> /\ is_numeric(Head(s)) THEN <<Head(s)>> \o take_while_numeric(Tail(s)) ELSE <<>>

\* str::parse::<f32> on a run of numeric characters and '.': ASCII digits with at
\* most one '.', and at least one digit; the value as the fraction num/den
parse_f32(s) ==
    LET dots == {i \in 1..Len(s) : s[i] = 46}
        wellformed == /\ \A i \in 1..Len(s) : IsAsciiDigit(s[i]) \/ s[i] = 46
                      /\ Cardinality(dots) <= 1
                      /\ Len(s) > Cardinality(dots)
        dot == IF dots = {} THEN Len(s) + 1 ELSE CHOOSE i \in dots : TRUE
        int == SubStr(s, 1, dot - 1)
        frac == SubStr(s, dot + 1, Len(s))
    IN  IF wellformed
        THEN [ok |-> TRUE, num |-> DigitsValue(int) * Pow10(Len(frac)) + DigitsValue(frac),
              den |-> Pow10(Len(frac))]
        ELSE [ok |-> FALSE, num |-> 0, den |-> 1]

NoProgress == [kind |-> "none"]

\* a slice at a byte index inside a multi-byte character panics
ParsePanic == [kind |-> "panic"]

WipeProgress(pass, total_passes, percent, message, phase) ==
    [kind |-> "some", pass |-> pass, total_passes |-> total_passes, percent |-> percent,
     bytes_written |-> 0, message |-> message, phase |-> phase]

\* the whole line taken for the text after the marker
after_passes_completed_whole(clean_line) == clean_line

\* the text between the first "Passes completed:" and the next one (or the end)
after_passes_completed(clean_line) ==
    LET idx == find(clean_line, Str_Passes_completed)
        rest == SubStr(clean_line, idx + Len(Str_Passes_completed), Len(clean_line))
        nxt == find(rest, Str_Passes_completed)
    IN  IF nxt = 0 THEN rest ELSE SubStr(rest, 1, nxt - 1)

parse_progress_line(line, total_passes) ==
    LET clean_line == strip_ansi(line)
    IN  IF ~contains(clean_line, Str_Pass) THEN NoProgress
        ELSE IF contains(clean_line, Str_Passes_completed)
        THEN LET n == parse_u32(trim(after_passes_completed(clean_line)))
             IN  WipeProgress(IF n.ok THEN n.val ELSE total_passes, total_passes,
                              Frac(100, 1), clean_line, "complete")
        ELSE LET idx == find(clean_line, Str_Pass_sp)
             IN  IF idx = 0 THEN NoProgress
                 ELSE
        LET after_pass == SubStr(clean_line, idx + 5, Len(clean_line))
            p == parse_u32(take_while_numeric(after_pass))
            pass == IF p.ok THEN p.val ELSE 1
            is_complete == contains(clean_line, Str_complete)
            pct_idx == find(clean_line, Str_percent)
            stops == {i \in 1..(pct_idx - 1) :
                        ~is_numeric(clean_line[i]) /\ clean_line[i] # 46}
            last == IF stops = {} THEN 0 ELSE CHOOSE i \in stops : \A j \in stops : j <= i
            within == parse_f32(SubStr(clean_line, last + 1, pct_idx - 1))
            completed_passes == IF pass >= 1 THEN pass - 1 ELSE 0
        IN  IF is_complete
            THEN WipeProgress(pass, total_passes, Frac(pass * 100, total_passes),
                              clean_line, "complete")
            ELSE IF pct_idx # 0
            THEN IF last # 0 /\ len_utf8(clean_line[last]) > 1
                 THEN ParsePanic
                 ELSE WipeProgress(pass, total_passes,
                        Frac(completed_passes * 100 * within.den + within.num,
                             total_passes * within.den),
                        clean_line, "writing")
            ELSE WipeProgress(pass, total_passes, Frac(0, 1), clean_line, "writing")

(***************************************************************************)
(* The wipe session: run_wipe, abort_wipe, cleanup_on_exit                 *)
(*                                                                         *)
(* Every invocation is a process.  A statement that touches nothing shared *)
(* (a pure computation, or a subprocess that acts on the device only) is   *)
(* taken together with the next statement that does.                       *)
(***************************************************************************)
None == <<>>

Some(v) == <<v>>

\* The invocations the front end makes: two of run_wipe and one of abort_wipe;
\* and the window's close request, which calls cleanup_on_exit
Run1 == <<"run_wipe", 1>>

Run2 == <<"run_wipe", 2>>

Runs == {Run1, Run2}

Aborts == {<<"abort_wipe", 1>>}

Exit1 == <<"cleanup_on_exit", 1>>

Exits == {Exit1}

Procs == Runs \cup Aborts \cup Exits

\* Device identifiers the front end passes: "a", "b" and "a;b".  The code never
\* looks into an accepted identifier, so the first invocation's is named "a".
RawIds == {Str_a, Str_b, <<97, 59, 98>>}

\* WipeConfig values the front end passes
WipeConfig(mode, passes, size_mb) ==
    [mode |-> mode, passes |-> passes, size_mb |-> size_mb, double_reset |-> FALSE]

Configs == {WipeConfig("quick", 25, Some(50)), WipeConfig("turbo", 0, None)}

\* Lines the overwrite script writes: the banner "Wipe", "Pass 1 complete", and
\* "Pass 1 <e-acute>5%"
ChildLines == {<<87, 105, 112, 101>>,
               Str_Pass_sp \o <<49, SP>> \o Str_complete,
               Str_Pass_sp \o <<49, SP, 233, 53, 37>>}

\* and, when one wipe is followed alone, "Pass 2 50%" as well
WipeLines == ChildLines \cup {Str_Pass_sp \o <<50, SP, 53, 48, 37>>}

\* parse_progress_line on every line of WipeLines and every clamped pass count
ParsedLine == [line \in WipeLines |-> [passes \in 1..20 |-> parse_progress_line(line, passes)]]

NoRet == [ok |-> FALSE, msg |-> ""]

RetOk(m) == [ok |-> TRUE, msg |-> m]

RetErr(m) == [ok |-> FALSE, msg |-> m]

RunLocals == [raw |-> <<>>, dev |-> <<>>, config |-> WipeConfig("", 0, None), passes |-> 0,
              size_mb |-> 0, script |-> "", status |-> "", ret |-> NoRet]

AbortLocals == [dev |-> None, failed |-> {}, ret |-> NoRet]

ExitLocals == [dev |-> None]

\* out: the lines the script has written; lines: how many of them were read
NoChild == [state |-> "none", status |-> "", lines |-> 0, out |-> <<>>,
            script |-> "", d |-> <<>>, p |-> 0, flags |-> {}, s |-> None]

NoCall == [cmd |-> "", arg |-> None, ret |-> NoRet, value |-> None, argv |-> {}]

Init ==
    /\ device_id = None
    /\ pc = [p \in Procs |-> "idle"]
    /\ loc = [p \in Procs |-> IF p \in Runs THEN RunLocals
                             ELSE IF p \in Aborts THEN AbortLocals ELSE ExitLocals]
    /\ child = [r \in Runs |-> NoChild]
    /\ events = <<>>
    /\ commands = {}
    /\ last_call = NoCall
    /\ fn_in = <<>>
    /\ fn_out = None

Cmd(by, prog, dev, what) == [by |-> by, prog |-> prog, dev |-> dev, what |-> what]

\* a returning invocation drops its locals
Returned(l, ret) == [RunLocals EXCEPT !.raw = l.raw, !.config = l.config, !.ret = ret]

Goto(p, to) == pc' = [pc EXCEPT ![p] = to]

clamp(v, lo, hi) == IF v < lo THEN lo ELSE IF v > hi THEN hi ELSE v

\* the identifier stored before it is sanitized
RunStart_unsanitized(r, raw, config) ==
    /\ pc[r] = "idle"
    /\ r = Run2 => pc[Run1] # "idle"
    /\ raw = Str_b => r = Run2
    /\ device_id' = Some(raw)
    /\ LET s == sanitize_device_id(raw)
       IN  IF ~s.ok
           THEN /\ Goto(r, "done")
                /\ loc' = [loc EXCEPT ![r].raw = raw, ![r].ret = RetErr(s.err)]
           ELSE /\ Goto(r, "validate")
                /\ loc' = [loc EXCEPT ![r].raw = raw, ![r].dev = s.val, ![r].config = config]
    /\ UNCHANGED <<child, events, commands, last_call, fn_in, fn_out>>

\* run_wipe is invoked: the identifier is sanitized and, under the lock, stored
\* for abort.  Invocations are numbered in the order they arrive.
RunStart(r, raw, config) ==
    /\ pc[r] = "idle"
    /\ r = Run2 => pc[Run1] # "idle"
    /\ raw = Str_b => r = Run2
    /\ LET s == sanitize_device_id(raw)
       IN  IF ~s.ok
           THEN /\ Goto(r, "done")
                /\ loc' = [loc EXCEPT ![r].raw = raw, ![r].ret = RetErr(s.err)]
                /\ UNCHANGED device_id
           ELSE /\ Goto(r, "validate")
                /\ loc' = [loc EXCEPT ![r].raw = raw, ![r].dev = s.val, ![r].config = config]
                /\ device_id' = Some(s.val)
    /\ UNCHANGED <<child, events, commands, last_call, fn_in, fn_out>>

StartingEvent(r, passes) ==
    [name |-> "wipe-progress", by |-> r,
     payload |-> [kind |-> "some", pass |-> 0, total_passes |-> passes,
                  percent |-> Frac(0, 1), bytes_written |-> 0,
                  message |-> "Starting wipe", phase |-> "starting"]]

\* the start event emitted before the scripts directory is looked up
RunPrepare_event_first(r, outcome) ==
    /\ pc[r] = "validate"
    /\ LET config == loc[r].config
           passes == clamp(config.passes, 1, 20)
           size_mb == IF config.size_mb = None THEN 1024
                      ELSE clamp(config.size_mb[1], 64, 10240)
           script == IF config.mode = "quick" THEN "quick_wipe.sh" ELSE "full_wipe.sh"
           fail(msg) == /\ Goto(r, "done")
                        /\ loc' = [loc EXCEPT ![r] = Returned(loc[r], RetErr(msg))]
       IN  IF config.mode # "quick" /\ config.mode # "full"
           THEN fail("Invalid wipe mode. Must be 'quick' or 'full'.") /\ UNCHANGED events
           ELSE /\ events' = Append(events, StartingEvent(r, passes))
                /\ CASE outcome = "exe_error" -> fail("Failed to get exe path")
                     [] outcome = "not_found" ->
                          fail("Scripts directory not found. Please reinstall the application.")
                     [] outcome = "found" ->
                          /\ Goto(r, "spawn")
                          /\ loc' = [loc EXCEPT ![r].passes = passes, ![r].size_mb = size_mb,
                                                ![r].script = script]
    /\ UNCHANGED <<device_id, child, commands, last_call, fn_in, fn_out>>

\* passes and size taken as they come
RunPrepare_unclamped(r, outcome) ==
    /\ pc[r] = "validate"
    /\ LET config == loc[r].config
           passes == config.passes
           size_mb == IF config.size_mb = None THEN 1024 ELSE config.size_mb[1]
           script == IF config.mode = "quick" THEN "quick_wipe.sh" ELSE "full_wipe.sh"
           fail(msg) == /\ Goto(r, "done")
                        /\ loc' = [loc EXCEPT ![r] = Returned(loc[r], RetErr(msg))]
                        /\ UNCHANGED events
       IN  IF config.mode # "quick" /\ config.mode # "full"
           THEN fail("Invalid wipe mode. Must be 'quick' or 'full'.")
           ELSE CASE outcome = "exe_error" -> fail("Failed to get exe path")
                  [] outcome = "not_found" ->
                       fail("Scripts directory not found. Please reinstall the application.")
                  [] outcome = "found" ->
                       /\ Goto(r, "spawn")
                       /\ loc' = [loc EXCEPT ![r].passes = passes, ![r].size_mb = size_mb,
                                             ![r].script = script]
                       /\ events' = Append(events, StartingEvent(r, clamp(passes, 1, 20)))
    /\ UNCHANGED <<device_id, child, commands, last_call, fn_in, fn_out>>

\* passes and size are clamped, the mode is validated, the scripts directory is
\* looked up and, when it is found, the start event is emitted
RunPrepare(r, outcome) ==
    /\ pc[r] = "validate"
    /\ LET config == loc[r].config
           passes == clamp(config.passes, 1, 20)
           size_mb == IF config.size_mb = None THEN 1024
                      ELSE clamp(config.size_mb[1], 64, 10240)
           script == IF config.mode = "quick" THEN "quick_wipe.sh" ELSE "full_wipe.sh"
           fail(msg) == /\ Goto(r, "done")
                        /\ loc' = [loc EXCEPT ![r] = Returned(loc[r], RetErr(msg))]
                        /\ UNCHANGED events
       IN  IF config.mode # "quick" /\ config.mode # "full"
           THEN fail("Invalid wipe mode. Must be 'quick' or 'full'.")
           ELSE CASE outcome = "exe_error" -> fail("Failed to get exe path")
                  [] outcome = "not_found" ->
                       fail("Scripts directory not found. Please reinstall the application.")
                  [] outcome = "found" ->
                       /\ Goto(r, "spawn")
                       /\ loc' = [loc EXCEPT ![r].passes = passes, ![r].size_mb = size_mb,
                                             ![r].script = script]
                       /\ events' = Append(events, StartingEvent(r, passes))
    /\ UNCHANGED <<device_id, child, commands, last_call, fn_in, fn_out>>

\* the command is built and spawned
RunSpawn(r, spawn_ok) ==
    /\ pc[r] = "spawn"
    /\ commands' = commands \cup {Cmd(r, "bash", Some(loc[r].dev), loc[r].script)}
    /\ IF spawn_ok
       THEN /\ Goto(r, "read")
            /\ child' = [child EXCEPT ![r] =
                   [state |-> "running", status |-> "", lines |-> 0, out |-> <<>>,
                    script |-> loc[r].script, d |-> loc[r].dev, p |-> loc[r].passes,
                    flags |-> {"-y", "--raw"},
                    s |-> IF loc[r].config.mode = "quick" THEN Some(loc[r].size_mb) ELSE None]]
            /\ UNCHANGED loc
       ELSE /\ Goto(r, "done")
            /\ loc' = [loc EXCEPT ![r] = Returned(loc[r], RetErr("Failed to start wipe"))]
            /\ UNCHANGED child
    /\ UNCHANGED <<device_id, events, last_call, fn_in, fn_out>>

\* the script ends by itself, with exit status 0 or 1
ChildExit(r, status) ==
    /\ child[r].state = "running"
    /\ child' = [child EXCEPT ![r].state = "exited", ![r].status = status]
    /\ UNCHANGED <<device_id, pc, loc, events, commands, last_call, fn_in, fn_out>>

\* one turn of the read loop: a line the script wrote (before it ended, if it
\* has) is read and parsed, and its progress emitted; the script writes at most
\* max lines
RunReadUpTo(r, line, max) ==
    /\ pc[r] = "read"
    /\ child[r].lines < max
    /\ LET progress == ParsedLine[line][loc[r].passes]
       IN  /\ child' = [child EXCEPT ![r].lines = @ + 1, ![r].out = Append(@, line)]
           /\ CASE progress.kind = "some" ->
                     /\ events' = Append(events, [name |-> "wipe-progress", by |-> r,
                                                  payload |-> progress])
                     /\ UNCHANGED pc
                [] progress.kind = "none" -> UNCHANGED <<events, pc>>
                [] progress.kind = "panic" -> Goto(r, "panicked") /\ UNCHANGED events
    /\ UNCHANGED <<device_id, loc, commands, last_call, fn_in, fn_out>>

RunRead(r, line) == RunReadUpTo(r, line, MaxLines)

\* the script writes a line after the read loop was left by a panic: nothing
\* reads it
ChildWrite(r, line, max) ==
    /\ pc[r] = "panicked"
    /\ child[r].state = "running"
    /\ Len(child[r].out) < max
    /\ child' = [child EXCEPT ![r].out = Append(@, line)]
    /\ UNCHANGED <<device_id, pc, loc, events, commands, last_call, fn_in, fn_out>>

\* the read loop sees the end of the stream, and child.wait() returns
RunWait(r, wait_ok) ==
    /\ pc[r] = "read"
    /\ child[r].state = "exited"
    /\ IF wait_ok
       THEN /\ Goto(r, "clear")
            /\ loc' = [loc EXCEPT ![r].status = child[r].status]
            /\ child' = [child EXCEPT ![r] = NoChild]
       ELSE /\ Goto(r, "done")
            /\ loc' = [loc EXCEPT ![r] = Returned(loc[r], RetErr("Wipe process error"))]
            /\ child' = [child EXCEPT ![r] = NoChild]
    /\ UNCHANGED <<device_id, events, commands, last_call, fn_in, fn_out>>

\* the wipe state is cleared, under the lock
RunClear(r) ==
    /\ pc[r] = "clear"
    /\ device_id' = None
    /\ Goto(r, "complete")
    /\ UNCHANGED <<loc, child, events, commands, last_call, fn_in, fn_out>>

\* success reported whatever the exit status
RunComplete_success(r) ==
    /\ pc[r] = "complete"
    /\ events' = Append(events, [name |-> "wipe-complete", by |-> r,
                                 payload |-> [success |-> TRUE,
                                              mode |-> loc[r].config.mode,
                                              passes |-> loc[r].passes]])
    /\ Goto(r, "done")
    /\ loc' = [loc EXCEPT ![r] = Returned(loc[r], RetOk("Wipe completed successfully!"))]
    /\ UNCHANGED <<device_id, child, commands, last_call, fn_in, fn_out>>

\* the completion event is emitted and run_wipe returns
RunComplete(r) ==
    /\ pc[r] = "complete"
    /\ events' = Append(events, [name |-> "wipe-complete", by |-> r,
                                 payload |-> [success |-> loc[r].status = "exit0",
                                              mode |-> loc[r].config.mode,
                                              passes |-> loc[r].passes]])
    /\ Goto(r, "done")
    /\ loc' = [loc EXCEPT ![r] = Returned(loc[r],
                 IF loc[r].status = "exit0"
                 THEN RetOk("Wipe completed successfully!")
                 ELSE RetErr("Wipe failed. Check device connection and try again."))]
    /\ UNCHANGED <<device_id, child, commands, last_call, fn_in, fn_out>>

\* pkill -f wipe.sh, when it works, ends every running overwrite script
KillScripts ==
    [r \in Runs |-> IF child[r].state = "running"
                    THEN [child[r] EXCEPT !.state = "exited", !.status = "signal"]
                    ELSE child[r]]

\* the None case not told apart
AbortRead_unchecked(a) ==
    /\ pc[a] = "idle"
    /\ Goto(a, "kill_host")
    /\ loc' = [loc EXCEPT ![a].dev = device_id]
    /\ UNCHANGED <<device_id, child, events, commands, last_call, fn_in, fn_out>>

\* abort_wipe reads the device id, under the lock
AbortRead(a) ==
    /\ pc[a] = "idle"
    /\ IF device_id = None
       THEN /\ Goto(a, "done")
            /\ loc' = [loc EXCEPT ![a].ret = RetErr("No wipe operation in progress.")]
       ELSE /\ Goto(a, "kill_host")
            /\ loc' = [loc EXCEPT ![a].dev = device_id]
    /\ UNCHANGED <<device_id, child, events, commands, last_call, fn_in, fn_out>>

\* a failed host-side kill returned as an error
AbortKillHost_propagating(a, failed) ==
    /\ pc[a] = "kill_host"
    /\ commands' = commands \cup {Cmd(a, "pkill", None, "wipe.sh")}
    /\ child' = IF failed THEN child ELSE KillScripts
    /\ IF failed
       THEN /\ Goto(a, "done")
            /\ loc' = [loc EXCEPT ![a] = [AbortLocals EXCEPT !.ret = RetErr("pkill failed")]]
       ELSE /\ Goto(a, "kill_device")
            /\ UNCHANGED loc
    /\ UNCHANGED <<device_id, events, last_call, fn_in, fn_out>>

\* pkill -f wipe.sh on the host; its result is dropped
AbortKillHost(a, failed) ==
    /\ pc[a] = "kill_host"
    /\ commands' = commands \cup {Cmd(a, "pkill", None, "wipe.sh")}
    /\ child' = IF failed THEN child ELSE KillScripts
    /\ loc' = [loc EXCEPT ![a].failed = IF failed THEN @ \cup {"host"} ELSE @]
    /\ Goto(a, "kill_device")
    /\ UNCHANGED <<device_id, events, last_call, fn_in, fn_out>>

\* a failed device command returned as an error, before the state is cleared
AbortCleanup_propagating(a, kill_failed, rm_failed) ==
    /\ pc[a] = "kill_device"
    /\ commands' = commands \cup {Cmd(a, "adb", loc[a].dev, "pkill dd"),
                                  Cmd(a, "adb", loc[a].dev, "rm wipe_temp")}
    /\ IF kill_failed \/ rm_failed
       THEN /\ Goto(a, "done")
            /\ loc' = [loc EXCEPT ![a] = [AbortLocals EXCEPT !.ret = RetErr("cleanup failed")]]
            /\ UNCHANGED device_id
       ELSE /\ Goto(a, "emit")
            /\ device_id' = None
            /\ UNCHANGED loc
    /\ UNCHANGED <<child, events, last_call, fn_in, fn_out>>

\* adb -s <id> shell pkill -f 'dd if=/dev/urandom' and adb -s <id> shell rm -rf
\* /sdcard/wipe_temp/, their results dropped; then the wipe state is cleared,
\* under the lock
AbortCleanup(a, kill_failed, rm_failed) ==
    /\ pc[a] = "kill_device"
    /\ commands' = commands \cup {Cmd(a, "adb", loc[a].dev, "pkill dd"),
                                  Cmd(a, "adb", loc[a].dev, "rm wipe_temp")}
    /\ loc' = [loc EXCEPT ![a].failed = @ \cup (IF kill_failed THEN {"device"} ELSE {})
                                          \cup (IF rm_failed THEN {"remove"} ELSE {})]
    /\ device_id' = None
    /\ Goto(a, "emit")
    /\ UNCHANGED <<child, events, last_call, fn_in, fn_out>>

AbortedEvent(a) ==
    [name |-> "wipe-aborted", by |-> a,
     payload |-> [message |-> "Wipe operation aborted and cleaned up."]]

\* the abort event is emitted and abort_wipe returns
AbortEmit(a) ==
    /\ pc[a] = "emit"
    /\ events' = Append(events, AbortedEvent(a))
    /\ Goto(a, "done")
    /\ loc' = [loc EXCEPT ![a] = [AbortLocals EXCEPT !.ret = RetOk("Wipe aborted. Temporary files cleaned up.")]]
    /\ UNCHANGED <<device_id, child, commands, last_call, fn_in, fn_out>>

\* cleanup_on_exit reads the device id, under the lock
ExitRead(c) ==
    /\ pc[c] = "idle"
    /\ Goto(c, "kill_host")
    /\ loc' = [loc EXCEPT ![c].dev = device_id]
    /\ UNCHANGED <<device_id, child, events, commands, last_call, fn_in, fn_out>>

\* pkill -f wipe.sh on the host and, when a device id was read, the two adb
\* commands; their results are dropped
ExitCleanup(c, failed) ==
    /\ pc[c] = "kill_host"
    /\ commands' = commands \cup {Cmd(c, "pkill", None, "wipe.sh")}
                     \cup (IF loc[c].dev = None THEN {}
                           ELSE {Cmd(c, "adb", loc[c].dev, "pkill dd"),
                                 Cmd(c, "adb", loc[c].dev, "rm wipe_temp")})
    /\ child' = IF failed THEN child ELSE KillScripts
    /\ Goto(c, "done")
    /\ UNCHANGED <<device_id, loc, events, last_call, fn_in, fn_out>>

Next ==
    \/ \E r \in Runs, raw \in RawIds, config \in Configs : RunStart(r, raw, config)
    \/ \E r \in Runs, outcome \in {"exe_error", "not_found", "found"} : RunPrepare(r, outcome)
    \/ \E r \in Runs, spawn_ok \in BOOLEAN : RunSpawn(r, spawn_ok)
    \/ \E r \in Runs, status \in {"exit0", "exit1"} : ChildExit(r, status)
    \/ \E r \in Runs, line \in ChildLines : RunRead(r, line)
    \/ \E r \in Runs, wait_ok \in BOOLEAN : RunWait(r, wait_ok)
    \/ \E r \in Runs : RunClear(r)
    \/ \E r \in Runs : RunComplete(r)
    \/ \E a \in Aborts : AbortRead(a)
    \/ \E a \in Aborts, failed \in BOOLEAN : AbortKillHost(a, failed)
    \/ \E a \in Aborts, kill_failed \in BOOLEAN, rm_failed \in BOOLEAN :
          AbortCleanup(a, kill_failed, rm_failed)
    \/ \E a \in Aborts : AbortEmit(a)

Spec == Init /\ [][Next]_vars

(***************************************************************************)
(* Properties of the wipe session                                          *)
(***************************************************************************)
Started(r) == pc[r] # "idle" /\ sanitize_device_id(loc[r].raw).ok

\* C1: run_wipe invoked with an acceptable identifier while device_id is Some
\* fails, and leaves device_id as it is
C1_SecondStartRejected ==
    [][\A r \in Runs :
        (pc[r] = "idle" /\ pc'[r] # "idle" /\ device_id # None
            /\ sanitize_device_id(loc'[r].raw).ok)
        => (pc'[r] = "done" /\ ~loc'[r].ret.ok /\ device_id' = device_id)]_vars

\* C2: at every moment at most one overwrite child process exists
C2_AtMostOneChild == Cardinality({r \in Runs : child[r].state = "running"}) <= 1

\* C3: abort_wipe, once it has found an active wipe, goes through its three
\* cleanup steps to the clearing of device_id whichever of them fail; and
\* run_wipe, once wait() has given the exit status, clears device_id before it
\* returns
C3_ClearedAfterAbortOrExit ==
    [][/\ \A a \in Aborts :
            /\ (pc[a] = "kill_host" /\ pc'[a] # "kill_host") => pc'[a] = "kill_device"
            /\ (pc[a] = "kill_device" /\ pc'[a] # "kill_device")
                  => (pc'[a] = "emit" /\ device_id' = None)
            /\ (pc[a] = "emit" /\ pc'[a] # "emit") => (pc'[a] = "done" /\ loc'[a].ret.ok)
       /\ \A r \in Runs :
            /\ (pc[r] = "clear" /\ pc'[r] # "clear")
                  => (pc'[r] = "complete" /\ device_id' = None)
            /\ (pc[r] = "complete" /\ pc'[r] # "complete") => pc'[r] = "done"
            /\ (pc[r] # "done" /\ pc'[r] = "done"
                  /\ loc'[r].ret.msg \in {"Wipe completed successfully!",
                                         "Wipe failed. Check device connection and try again."})
                  => pc[r] = "complete"]_vars

\* abort_wipe has cleared device_id although its three cleanup steps failed, and
\* the script of the first run_wipe has ended by itself and that run_wipe has
\* cleared device_id
C3_Witness ==
    /\ \E a \in Aborts : pc[a] = "emit" /\ loc[a].failed = {"host", "device", "remove"}
    /\ pc[Run1] = "complete"
    /\ loc[Run1].status = "exit0"
    /\ device_id = None

\* C4: once every run_wipe that stored its device has returned, device_id is None
C4_ClearedOnEveryExit ==
    ((\A r \in Runs : pc[r] \in {"idle", "done"}) /\ (\E r \in Runs : Started(r)))
        => device_id = None

\* C8: run_wipe with an identifier that sanitize_device_id refuses returns the
\* invalid-identifier error; no process, no event, device_id unchanged
C8_InvalidIdRejected ==
    [][\A r \in Runs :
        (pc[r] = "idle" /\ pc'[r] # "idle" /\ ~sanitize_device_id(loc'[r].raw).ok)
        => /\ pc'[r] = "done"
           /\ loc'[r].ret = RetErr("Invalid device ID format")
           /\ device_id' = device_id
           /\ events' = events
           /\ commands' = commands
           /\ child' = child]_vars

\* the second run_wipe was refused "a;b" while the first one's wipe of "a" goes on
C8_Witness ==
    /\ pc[Run2] = "done"
    /\ loc[Run2].raw = <<97, 59, 98>>
    /\ loc[Run2].ret = RetErr("Invalid device ID format")
    /\ child[Run1].state = "running"
    /\ device_id = Some(Str_a)

\* C9: run_wipe with an acceptable identifier and a mode other than "quick" or
\* "full" returns the invalid-mode error and leaves device_id as it was before
\* the call (None, when nothing else has run)
C9_InvalidModeNoChange ==
    (/\ pc[Run1] = "done"
     /\ loc[Run1].ret = RetErr("Invalid wipe mode. Must be 'quick' or 'full'.")
     /\ pc[Run2] = "idle"
     /\ \A a \in Aborts : pc[a] = "idle")
        => (device_id = None /\ child[Run1].state = "none")

\* C10: abort_wipe while device_id is None fails with the no-wipe-in-progress
\* error; no command, no event, device_id still None
C10_AbortWhenIdle ==
    [][\A a \in Aborts :
        (pc[a] = "idle" /\ pc'[a] # "idle" /\ device_id = None)
        => /\ pc'[a] = "done"
           /\ loc'[a].ret = RetErr("No wipe operation in progress.")
           /\ device_id' = None
           /\ events' = events
           /\ commands' = commands
           /\ child' = child]_vars

\* abort_wipe was refused after the first run_wipe had completed its wipe
C10_Witness ==
    /\ \E a \in Aborts :
          /\ pc[a] = "done"
          /\ loc[a].ret = RetErr("No wipe operation in progress.")
          /\ \A c \in commands : c.by # a
          /\ \A i \in 1..Len(events) : events[i].by # a
    /\ pc[Run1] = "done"
    /\ loc[Run1].ret.ok
    /\ device_id = None

\* C11: abort_wipe that finds an active device launches the host-side kill, the
\* device-side kill and the device-side removal whichever of them fail, then
\* emits wipe-aborted and returns Ok
C11_AbortNeverPropagates ==
    [][\A a \in Aborts :
        /\ (pc[a] = "idle" /\ pc'[a] # "idle" /\ device_id # None) => pc'[a] = "kill_host"
        /\ (pc[a] = "kill_host" /\ pc'[a] # "kill_host")
              => /\ pc'[a] = "kill_device"
                 /\ Cmd(a, "pkill", None, "wipe.sh") \in commands'
        /\ (pc[a] = "kill_device" /\ pc'[a] # "kill_device")
              => /\ pc'[a] = "emit"
                 /\ Cmd(a, "adb", loc[a].dev, "pkill dd") \in commands'
                 /\ Cmd(a, "adb", loc[a].dev, "rm wipe_temp") \in commands'
        /\ (pc[a] = "emit" /\ pc'[a] # "emit")
              => /\ pc'[a] = "done"
                 /\ events' = Append(events, AbortedEvent(a))
                 /\ loc'[a].ret = RetOk("Wipe aborted. Temporary files cleaned up.")]_vars

\* abort_wipe has returned Ok after its three commands and its event, although
\* the host-side kill failed: the script of the first run_wipe is still running
C11_Witness ==
    \E a \in Aborts :
        /\ pc[a] = "done"
        /\ loc[a].ret.ok
        /\ {c.what : c \in {k \in commands : k.by = a}} = {"wipe.sh", "pkill dd", "rm wipe_temp"}
        /\ \E i \in 1..Len(events) : events[i] = AbortedEvent(a)
        /\ child[Run1].state = "running"
        /\ pc[Run1] = "read"

\* C26: while the script a run_wipe launched is running, device_id is Some of
\* the identifier that script was launched with
C26_RunningWipeRecorded ==
    \A r \in Runs : child[r].state = "running" => device_id = Some(child[r].d)

\* C15: abort_wipe invoked while a run_wipe has stored its device and has not yet
\* emitted wipe-complete does not fail with the no-wipe-in-progress error
C15_AbortFindsActiveWipe ==
    [][\A a \in Aborts :
        (/\ pc[a] = "idle"
         /\ pc'[a] # "idle"
         /\ \E r \in Runs : pc[r] \in {"validate", "spawn", "read", "clear", "complete"})
        => loc'[a].ret # RetErr("No wipe operation in progress.")]_vars

(***************************************************************************)
(* One wipe followed alone, from run_wipe to its return or to the close of *)
(* the window, over more configurations and more lines of output           *)
(***************************************************************************)
WipeConfigs ==
    {WipeConfig("quick", 0, None), WipeConfig("quick", 7, Some(50)),
     WipeConfig("quick", 25, Some(99999)), WipeConfig("quick", 20, Some(2048)),
     WipeConfig("full", 1, None), WipeConfig("full", 25, Some(50)),
     WipeConfig("full", 7, Some(2048)), WipeConfig("turbo", 0, None)}

NextWipe ==
    \/ \E raw \in RawIds, config \in WipeConfigs : RunStart(Run1, raw, config)
    \/ \E outcome \in {"exe_error", "not_found", "found"} : RunPrepare(Run1, outcome)
    \/ \E spawn_ok \in BOOLEAN : RunSpawn(Run1, spawn_ok)
    \/ \E status \in {"exit0", "exit1"} : ChildExit(Run1, status)
    \/ \E line \in WipeLines : RunReadUpTo(Run1, line, MaxWipeLines)
    \/ \E line \in WipeLines : ChildWrite(Run1, line, MaxWipeLines)
    \/ \E wait_ok \in BOOLEAN : RunWait(Run1, wait_ok)
    \/ RunClear(Run1)
    \/ RunComplete(Run1)
    \/ ExitRead(Exit1)
    \/ \E failed \in BOOLEAN : ExitCleanup(Exit1, failed)

SpecWipe == Init /\ [][NextWipe]_vars

\* C12: cleanup_on_exit that reads device_id = None launches no command
C12_ExitNoopWhenIdle ==
    \A c \in Exits :
        (pc[c] = "done" /\ loc[c].dev = None) => \A k \in commands : k.by # c

\* C13: cleanup_on_exit that reads an active device has, when it returns, launched
\* the three cleanup commands of abort_wipe and left device_id None
C13_ExitClearsDevice ==
    \A c \in Exits :
        (pc[c] = "done" /\ loc[c].dev # None)
            => /\ {k.what : k \in {k \in commands : k.by = c}}
                     = {"wipe.sh", "pkill dd", "rm wipe_temp"}
               /\ device_id = None

\* the payloads of the wipe-progress events of r that come from the script's output
ProgressEvents(r) ==
    LET FromOutput(e) == e.name = "wipe-progress" /\ e.by = r /\ e.payload.phase # "starting"
        sel == SelectSeq(events, FromOutput)
    IN  [i \in 1..Len(sel) |-> sel[i].payload]

\* the values parse_progress_line returns on the lines the script of r has written
ProgressOfOutput(r) ==
    LET parsed == [i \in 1..Len(child[r].out) |->
                      parse_progress_line(child[r].out[i], loc[r].passes)]
        Returns(v) == v.kind = "some"
    IN  SelectSeq(parsed, Returns)

\* C14: the wipe-progress events emitted from the output of the script are the
\* values parse_progress_line returns on the lines the script has written, in
\* the order of the lines
C14_ProgressInOrder ==
    \A r \in Runs :
        child[r].state # "none" => ProgressEvents(r) = ProgressOfOutput(r)

\* C16: with the exit status wait() has given, run_wipe emits wipe-complete with
\* success = (status is zero), the requested mode and the clamped pass count,
\* and returns Ok when the status is zero and the wipe-failed error otherwise
C16_CompleteReportsStatus ==
    [][\A r \in Runs :
        /\ (pc[r] = "read" /\ pc'[r] = "clear") => loc'[r].status = child[r].status
        /\ (pc[r] = "complete" /\ pc'[r] # "complete")
              => LET zero == loc[r].status = "exit0"
                     asked == loc[r].config.passes
                     clamped == IF asked < 1 THEN 1 ELSE IF asked > 20 THEN 20 ELSE asked
                 IN  /\ pc'[r] = "done"
                     /\ events' = Append(events,
                            [name |-> "wipe-complete", by |-> r,
                             payload |-> [success |-> zero, mode |-> loc[r].config.mode,
                                          passes |-> clamped]])
                     /\ loc'[r].ret = IF zero
                                      THEN RetOk("Wipe completed successfully!")
                                      ELSE RetErr("Wipe failed. Check device connection and try again.")]_vars

\* a quick wipe asked with 25 passes has ended with a non-zero status
C16_Witness ==
    /\ pc[Run1] = "done"
    /\ loc[Run1].ret = RetErr("Wipe failed. Check device connection and try again.")
    /\ loc[Run1].config.passes = 25
    /\ events # <<>>
    /\ events[Len(events)].name = "wipe-complete"
    /\ events[Len(events)].payload = [success |-> FALSE, mode |-> "quick", passes |-> 20]

\* C17: the script is launched with -d <the sanitized id>, -p <passes clamped to
\* 1..20>, -y, and with -s <size> exactly in quick mode, the size being size_mb
\* clamped to 64..10240, or 1024 when absent
C17_ChildArguments ==
    \A r \in Runs :
        child[r].state # "none"
            => LET config == loc[r].config
                   asked == config.passes
                   size == IF config.size_mb = None THEN 1024
                           ELSE IF config.size_mb[1] < 64 THEN 64
                           ELSE IF config.size_mb[1] > 10240 THEN 10240
                           ELSE config.size_mb[1]
               IN  /\ sanitize_device_id(loc[r].raw).ok
                   /\ child[r].d = loc[r].raw
                   /\ child[r].p = (IF asked < 1 THEN 1 ELSE IF asked > 20 THEN 20 ELSE asked)
                   /\ child[r].p \in 1..20
                   /\ "-y" \in child[r].flags
                   /\ (child[r].s # None) <=> (config.mode = "quick")
                   /\ child[r].s # None => (child[r].s[1] = size /\ size \in 64..10240)
                   /\ config.mode \in {"quick", "full"}

\* the script of a quick wipe asked with 25 passes and 99999 MB runs with -p 20
\* and -s 10240
C17_Witness ==
    /\ child[Run1].state = "running"
    /\ loc[Run1].config = WipeConfig("quick", 25, Some(99999))
    /\ child[Run1].p = 20
    /\ child[Run1].s = Some(10240)
    /\ child[Run1].script = "quick_wipe.sh"

\* the events run_wipe r has emitted, in order
EventsOf(r) ==
    LET Mine(e) == e.by = r
    IN  SelectSeq(events, Mine)

\* C25: the first event of a run_wipe is the starting event (phase starting,
\* pass 0, percent 0, total_passes = the clamped passes), emitted once, when the
\* script is resolved and before the child is spawned; a run_wipe whose script
\* resolution fails emits no event and spawns nothing
C25_StartingEventFirst ==
    \A r \in Runs :
        LET mine == EventsOf(r)
            asked == loc[r].config.passes
        IN  /\ mine # <<>>
                  => /\ mine[1].name = "wipe-progress"
                     /\ mine[1].payload.phase = "starting"
                     /\ mine[1].payload.pass = 0
                     /\ mine[1].payload.percent.num = 0
                     /\ mine[1].payload.total_passes
                           = (IF asked < 1 THEN 1 ELSE IF asked > 20 THEN 20 ELSE asked)
                     /\ \A i \in 2..Len(mine) :
                           mine[i].name = "wipe-progress" => mine[i].payload.phase # "starting"
            /\ (mine # <<>> /\ pc[r] # "done") => loc[r].script \in {"quick_wipe.sh", "full_wipe.sh"}
            /\ (child[r].state # "none" \/ \E k \in commands : k.by = r) => mine # <<>>
            /\ (pc[r] = "done"
                  /\ loc[r].ret \in {RetErr("Failed to get exe path"),
                                     RetErr("Scripts directory not found. Please reinstall the application.")})
                  => /\ mine = <<>>
                     /\ child[r].state = "none"
                     /\ \A k \in commands : k.by # r

\* the starting event of a wipe asked with 25 passes came before the progress of
\* "Pass 1 complete"
C25_Witness ==
    /\ Len(events) >= 2
    /\ events[1].payload.phase = "starting"
    /\ events[1].payload.total_passes = 20
    /\ events[2].name = "wipe-progress"
    /\ events[2].payload.phase = "complete"
    /\ loc[Run1].config.passes = 25
    /\ pc[Run1] = "read"

(***************************************************************************)
(* One wipe and an abort_wipe invoked while its script runs                *)
(***************************************************************************)
AbortWhileRunning(a) ==
    /\ child[Run1].state = "running"
    /\ AbortRead(a)

NextAbort ==
    \/ \E raw \in RawIds, config \in Configs : RunStart(Run1, raw, config)
    \/ \E outcome \in {"exe_error", "not_found", "found"} : RunPrepare(Run1, outcome)
    \/ \E spawn_ok \in BOOLEAN : RunSpawn(Run1, spawn_ok)
    \/ \E status \in {"exit0", "exit1"} : ChildExit(Run1, status)
    \/ \E line \in WipeLines : RunReadUpTo(Run1, line, MaxWipeLines)
    \/ \E wait_ok \in BOOLEAN : RunWait(Run1, wait_ok)
    \/ RunClear(Run1)
    \/ RunComplete(Run1)
    \/ \E a \in Aborts : AbortWhileRunning(a)
    \/ \E a \in Aborts, failed \in BOOLEAN : AbortKillHost(a, failed)
    \/ \E a \in Aborts, kill_failed \in BOOLEAN, rm_failed \in BOOLEAN :
          AbortCleanup(a, kill_failed, rm_failed)
    \/ \E a \in Aborts : AbortEmit(a)

SpecAbort == Init /\ [][NextAbort]_vars

\* C24: when abort_wipe, invoked while the script runs, has returned Ok, the
\* run_wipe of that wipe has not returned Ok and does not
C24_AbortedNeverSucceeds ==
    \A a \in Aborts :
        (pc[a] = "done" /\ loc[a].ret.ok) => ~(pc[Run1] = "done" /\ loc[Run1].ret.ok)

Terminal(e) == e.name \in {"wipe-complete", "wipe-aborted"}

\* C27: a wipe has at most one terminal notification, wipe-complete or
\* wipe-aborted
C27_OneTerminalEvent ==
    Cardinality({i \in 1..Len(events) : Terminal(events[i])}) <= 1

\* C28: no wipe-progress event comes after a terminal notification
C28_NoProgressAfterTerminal ==
    \A i \in 1..Len(events), j \in 1..Len(events) :
        (i < j /\ Terminal(events[i])) => events[j].name # "wipe-progress"

(***************************************************************************)
(* sanitize_device_id applied to the strings of SanInputs                  *)
(***************************************************************************)
\* every string over Alphabet of at most MaxShort characters; "aa...a" of 63,
\* 64 and 65 characters with every last character; 32 and 33 e-acutes
SanInputs ==
    UNION {[1..n -> Alphabet] : n \in 0..MaxShort}
    \cup {[i \in 1..n |-> IF i = n THEN c ELSE 97] :
            n \in (MAX_ID_LEN - 1)..(MAX_ID_LEN + 1), c \in Alphabet}
    \cup {[i \in 1..n |-> 233] : n \in {32, 33}}

InitSanitize ==
    /\ Init!1 /\ Init!2 /\ Init!3 /\ Init!4 /\ Init!5 /\ Init!6 /\ Init!7
    /\ fn_in \in SanInputs
    /\ fn_out = None

CallSanitize ==
    /\ fn_out = None
    /\ fn_out' = Some(sanitize_device_id(fn_in))
    /\ UNCHANGED <<device_id, pc, loc, child, events, commands, last_call, fn_in>>

SpecSanitize == InitSanitize /\ [][CallSanitize]_vars

\* The character class [A-Za-z0-9:._-] of the specification
InCharClass(c) == c \in 65..90 \/ c \in 97..122 \/ c \in 48..57 \/ c \in {58, 46, 95, 45}

WithinCharClass(s) == \A i \in 1..Len(s) : InCharClass(s[i])

\* C5: sanitize_device_id fails for every string that is empty, longer than 64
\* characters, or holds a character outside [A-Za-z0-9:._-]
C5_RejectsOutsideClass ==
    (fn_out # None /\ (fn_in = <<>> \/ Len(fn_in) > 64 \/ ~WithinCharClass(fn_in)))
        => ~fn_out[1].ok

\* C6: sanitize_device_id succeeds for every string of 1 to 64 characters of
\* [A-Za-z0-9:._-] and returns it unchanged
C6_AcceptsWithinClass ==
    (fn_out # None /\ Len(fn_in) \in 1..64 /\ WithinCharClass(fn_in))
        => (fn_out[1].ok /\ fn_out[1].val = fn_in)

\* a 64-character identifier ending in '_' has been accepted
C6_Witness ==
    /\ fn_out # None
    /\ Len(fn_in) = 64
    /\ fn_in[64] = 95
    /\ WithinCharClass(fn_in)
    /\ fn_out[1].ok

(***************************************************************************)
(* parse_progress_line applied to the lines of ParseLines                  *)
(***************************************************************************)
\* "ESC[32m"
Str_green == <<ESC, 91, 51, 50, 109>>

\* what follows "Pass ": nothing, "1", "3", "25", "x", an arabic-indic 3
ParseNumbers == {<<>>, <<49>>, <<51>>, <<50, 53>>, <<120>>, <<1635>>}

\* the rest of the line: nothing, " complete", " 50%", " 12.5%", " <e-acute>5%",
\* " x%", " 250%", " (0%)"
ParseTails == {<<>>, <<SP>> \o Str_complete, <<SP, 53, 48, 37>>, <<SP, 49, 50, 46, 53, 37>>,
               <<SP, 233, 53, 37>>, <<SP, 120, 37>>, <<SP, 50, 53, 48, 37>>,
               <<SP, 40, 48, 37, 41>>}

\* "Starting wipe operation...", "Password", "Passes", "Pass",
\* "Passes completed: 3", "Passes completed: x", "Passes completed:",
\* "Pass 1 Passes completed: 3", "Passes completed: 3 Pass 2", and
\* "Passes completed: 3" in green
OtherLines ==
    {<<83, 116, 97, 114, 116, 105, 110, 103, 32, 119, 105, 112, 101, 32, 111, 112, 101, 114, 97, 116, 105, 111, 110, 46, 46, 46>>,
     <<80, 97, 115, 115, 119, 111, 114, 100>>,
     Str_Pass \o <<101, 115>>,
     Str_Pass,
     Str_Passes_completed \o <<SP, 51>>,
     Str_Passes_completed \o <<SP, 120>>,
     Str_Passes_completed,
     Str_Pass_sp \o <<49, SP>> \o Str_Passes_completed \o <<SP, 51>>,
     Str_Passes_completed \o <<SP, 51, SP>> \o Str_Pass_sp \o <<50>>,
     Str_green \o Str_Passes_completed \o <<SP, 51, ESC, 91, 48, 109>>}

ParseLines ==
    {pre \o Str_Pass_sp \o n \o tail :
        pre \in {<<>>, Str_green}, n \in ParseNumbers, tail \in ParseTails}
    \cup OtherLines

ParseInputs == ParseLines \X {1, 3, 20}

InitParse ==
    /\ Init!1 /\ Init!2 /\ Init!3 /\ Init!4 /\ Init!5 /\ Init!6 /\ Init!7
    /\ fn_in \in ParseInputs
    /\ fn_out = None

CallParse ==
    /\ fn_out = None
    /\ fn_out' = Some(parse_progress_line(fn_in[1], fn_in[2]))
    /\ UNCHANGED <<device_id, pc, loc, child, events, commands, last_call, fn_in>>

SpecParse == InitParse /\ [][CallParse]_vars

\* the first place where "Pass " is followed by an ASCII digit, 0 when there is none
PassWithDigit(s) ==
    LET at == {i \in 1..Len(s) : MatchAt(s, i, Str_Pass_sp) /\ i + 5 <= Len(s)
                                   /\ IsAsciiDigit(s[i + 5])}
    IN  IF at = {} THEN 0 ELSE CHOOSE i \in at : \A j \in at : i <= j

\* C18: parse_progress_line returns a value only for a line that, once the
\* escape sequences are stripped, contains "Passes completed:" or "Pass "
\* followed by a digit
C18_ValueOnlyForProgressLines ==
    (fn_out # None /\ fn_out[1].kind = "some")
        => LET clean == strip_ansi(fn_in[1])
           IN  contains(clean, Str_Passes_completed) \/ PassWithDigit(clean) # 0

\* C19: every value parse_progress_line returns has 0 <= percent <= 100
C19_PercentInRange ==
    (fn_out # None /\ fn_out[1].kind = "some")
        => /\ fn_out[1].percent.num >= 0
           /\ fn_out[1].percent.num <= 100 * fn_out[1].percent.den

\* the run of ASCII digits at the head of s
RECURSIVE DigitRun(_)
DigitRun(s) == IF s # <<>> /\ IsAsciiDigit(Head(s)) THEN <<Head(s)>> \o DigitRun(Tail(s)) ELSE <<>>

\* the run of digits and decimal points that ends just before position k of s
RunBefore(s, k) ==
    LET starts == {i \in 1..k : \A j \in i..(k - 1) : IsAsciiDigit(s[j]) \/ s[j] = 46}
    IN  SubStr(s, CHOOSE i \in starts : \A j \in starts : i <= j, k - 1)

\* C20: for a line with "Pass " followed by the digits N and without "Passes
\* completed:", the value returned has pass = N and the total_passes given, and
\* percent = N / total_passes * 100 with phase complete when the line contains
\* "complete"; else percent = (max(N-1, 0) + w/100) / total_passes * 100 with
\* phase writing when it contains '%', w being the number just before the '%'
\* (0 when it does not parse); else percent = 0 with phase writing
C20_PercentOfPassLine ==
    LET clean == strip_ansi(fn_in[1])
        total == fn_in[2]
        at == PassWithDigit(clean)
        N == DigitsValue(DigitRun(SubStr(clean, at + 5, Len(clean))))
        pct == find(clean, Str_percent)
        w == parse_f32(RunBefore(clean, pct))
        done == IF N >= 1 THEN N - 1 ELSE 0
    IN  (fn_out # None /\ at # 0 /\ ~contains(clean, Str_Passes_completed))
            => /\ fn_out[1].kind = "some"
               /\ fn_out[1].pass = N
               /\ fn_out[1].total_passes = total
               /\ IF contains(clean, Str_complete)
                  THEN /\ fn_out[1].percent = Frac(N * 100, total)
                       /\ fn_out[1].phase = "complete"
                  ELSE IF pct # 0
                  THEN /\ fn_out[1].percent
                            = Frac(done * 100 * w.den + w.num, total * w.den)
                       /\ fn_out[1].phase = "writing"
                  ELSE /\ fn_out[1].percent = Frac(0, 1)
                       /\ fn_out[1].phase = "writing"

\* C21: every line that contains "Passes completed:" yields percent 100, phase
\* complete and pass = the integer after the marker (total_passes when that
\* text is not an integer), whether or not it also has the shape "Pass <digits>"
C21_SummaryHasPriority ==
    LET clean == strip_ansi(fn_in[1])
        total == fn_in[2]
        marks == {i \in 1..Len(clean) : MatchAt(clean, i, Str_Passes_completed)}
        from == (CHOOSE i \in marks : \A j \in marks : i <= j) + Len(Str_Passes_completed)
        later == {i \in marks : i >= from}
        to == IF later = {} THEN Len(clean)
              ELSE (CHOOSE i \in later : \A j \in later : i <= j) - 1
        n == parse_u32(trim(SubStr(clean, from, to)))
    IN  (fn_out # None /\ marks # {})
            => /\ fn_out[1].kind = "some"
               /\ fn_out[1].percent = Frac(100, 1)
               /\ fn_out[1].phase = "complete"
               /\ fn_out[1].pass = (IF n.ok THEN n.val ELSE total)
               /\ fn_out[1].total_passes = total

\* "Pass 1 Passes completed: 3" with total_passes 20 has given pass 3
C21_Witness ==
    /\ fn_out # None
    /\ fn_in = <<Str_Pass_sp \o <<49, SP>> \o Str_Passes_completed \o <<SP, 51>>, 20>>
    /\ fn_out[1].kind = "some"
    /\ fn_out[1].pass = 3
    /\ fn_out[1].phase = "complete"

(***************************************************************************)
(* strip_ansi applied to the strings of StripInputs                        *)
(***************************************************************************)
\* ESC, '[', 'm', 'a'
StripAlphabet == {ESC, 91, 109, 97}

StripInputs == UNION {[1..n -> StripAlphabet] : n \in 0..MaxStrip}

InitStrip ==
    /\ Init!1 /\ Init!2 /\ Init!3 /\ Init!4 /\ Init!5 /\ Init!6 /\ Init!7
    /\ fn_in \in StripInputs
    /\ fn_out = None

CallStrip ==
    /\ fn_out = None
    /\ fn_out' = Some(strip_ansi(fn_in))
    /\ UNCHANGED <<device_id, pc, loc, child, events, commands, last_call, fn_in>>

SpecStrip == InitStrip /\ [][CallStrip]_vars

\* Where each character of s stands: "text" outside a sequence, "open" for the
\* '[' after an ESC, "seq" from there through the first 'm'
ScanMode(s) ==
    LET mode[i \in 1..(Len(s) + 1)] ==
            IF i = 1 THEN "text"
            ELSE CASE mode[i - 1] = "text" ->
                        IF s[i - 1] = ESC /\ i <= Len(s) /\ s[i] = 91 THEN "open" ELSE "text"
                   [] mode[i - 1] = "open" -> "seq"
                   [] mode[i - 1] = "seq" -> IF s[i - 1] = 109 THEN "text" ELSE "seq"
    IN  mode

StartsSequence(s, i) == s[i] = ESC /\ i < Len(s) /\ s[i + 1] = 91

\* the characters of s at the positions of keep, in order
RECURSIVE Pick(_, _, _)
Pick(s, i, keep) ==
    IF i > Len(s) THEN <<>>
    ELSE (IF i \in keep THEN <<s[i]>> ELSE <<>>) \o Pick(s, i + 1, keep)

\* C22 as stated: strip_ansi removes every sequence from ESC '[' through the
\* first 'm' that follows (to the end when none follows) and keeps every other
\* character, in order
C22_StripAsStated ==
    fn_out # None
        => fn_out[1] = Pick(fn_in, 1, {i \in 1..Len(fn_in) :
                              ScanMode(fn_in)[i] = "text" /\ ~StartsSequence(fn_in, i)})

\* C22, amended: strip_ansi removes every sequence from ESC '[' through the first
\* 'm' that follows (to the end when none follows), removes every ESC that is
\* not followed by '[', and keeps every other character, in order; a string
\* without ESC is returned unchanged
C22_StripRemovesEveryEsc ==
    fn_out # None
        => /\ fn_out[1] = Pick(fn_in, 1, {i \in 1..Len(fn_in) :
                                 ScanMode(fn_in)[i] = "text" /\ fn_in[i] # ESC})
           /\ (\A i \in 1..Len(fn_in) : fn_in[i] # ESC) => fn_out[1] = fn_in

\* ESC 'a' ESC '[' has given "a": the first ESC is alone, the second opens a
\* sequence that nothing ends
C22_Witness ==
    /\ fn_out # None
    /\ fn_in = <<ESC, 97, ESC, 91>>
    /\ fn_out[1] = <<97>>

(***************************************************************************)
(* parse_adb_devices applied to the listings of DeviceListings             *)
(***************************************************************************)
Str_offline == <<111, 102, 102, 108, 105, 110, 101>>

Str_unauthorized == <<117, 110, 97, 117, 116, 104, 111, 114, 105, 122, 101, 100>>

Str_usb == <<117, 115, 98>>

\* The lines `adb devices` may print, each with the tokens it is made of: an
\* empty line, a blank line, "a<TAB>device", "b<TAB>offline",
\* "b<TAB>unauthorized", "a", "  b  device usb", "device<TAB>a", "a<TAB>device<CR>"
DeviceRows ==
    {[text |-> <<>>, tokens |-> <<>>],
     [text |-> <<SP>>, tokens |-> <<>>],
     [text |-> Str_a \o <<TAB>> \o Str_device, tokens |-> <<Str_a, Str_device>>],
     [text |-> Str_b \o <<TAB>> \o Str_offline, tokens |-> <<Str_b, Str_offline>>],
     [text |-> Str_b \o <<TAB>> \o Str_unauthorized, tokens |-> <<Str_b, Str_unauthorized>>],
     [text |-> Str_a, tokens |-> <<Str_a>>],
     [text |-> <<SP, SP>> \o Str_b \o <<SP, SP>> \o Str_device \o <<SP>> \o Str_usb,
      tokens |-> <<Str_b, Str_device, Str_usb>>],
     [text |-> Str_device \o <<TAB>> \o Str_a, tokens |-> <<Str_device, Str_a>>],
     [text |-> Str_a \o <<TAB>> \o Str_device \o <<13>>, tokens |-> <<Str_a, Str_device>>]}

\* a listing: its first line (the header, a device row, or nothing), the rows
\* after it, and whether a newline ends the output
DeviceListings ==
    [first : {Str_header, Str_a \o <<TAB>> \o Str_device, <<>>},
     rows : UNION {[1..n -> DeviceRows] : n \in 0..MaxRows},
     newline : BOOLEAN]

\* the text of a listing
RECURSIVE JoinRows(_)
JoinRows(rows) == IF rows = <<>> THEN <<>> ELSE <<LF>> \o Head(rows).text \o JoinRows(Tail(rows))

ListingText(l) == l.first \o JoinRows(l.rows) \o (IF l.newline THEN <<LF>> ELSE <<>>)

InitDevices ==
    /\ Init!1 /\ Init!2 /\ Init!3 /\ Init!4 /\ Init!5 /\ Init!6 /\ Init!7
    /\ fn_in \in DeviceListings
    /\ fn_out = None

CallDevices ==
    /\ fn_out = None
    /\ fn_out' = Some(parse_adb_devices(ListingText(fn_in)))
    /\ UNCHANGED <<device_id, pc, loc, child, events, commands, last_call, fn_in>>

SpecDevices == InitDevices /\ [][CallDevices]_vars

\* one (first token, "device") pair for each row with at least two tokens, the
\* second being "device"
RECURSIVE ConnectedRows(_)
ConnectedRows(rows) ==
    IF rows = <<>> THEN <<>>
    ELSE (IF Len(Head(rows).tokens) >= 2 /\ Head(rows).tokens[2] = Str_device
          THEN << <<Head(rows).tokens[1], Str_device>> >> ELSE <<>>)
         \o ConnectedRows(Tail(rows))

\* C23: parse_adb_devices skips the first line and returns, in the order of the
\* input, one (first token, "device") pair for each later line with at least two
\* tokens whose second is "device", and nothing for any other line
C23_ConnectedDevices ==
    fn_out # None => fn_out[1] = ConnectedRows(fn_in.rows)

\* a device row in the place of the header was skipped, "b offline" gave nothing
\* and "  b  device usb" gave (b, device)
C23_Witness ==
    /\ fn_out # None
    /\ fn_in.first = Str_a \o <<TAB>> \o Str_device
    /\ Len(fn_in.rows) = 2
    /\ fn_in.rows[1].tokens = <<Str_b, Str_offline>>
    /\ fn_in.rows[2].tokens = <<Str_b, Str_device, Str_usb>>
    /\ fn_out[1] = << <<Str_b, Str_device>> >>

(***************************************************************************)
(* The commands that keep no state: check_adb, get_storage_info,           *)
(* run_factory_reset, check_device_connected, revoke_adb,                  *)
(* cleanup_wipe_files.  last_call holds the latest invocation: its         *)
(* argument, its result, and the subprocesses it launched.                 *)
(***************************************************************************)
\* what `adb devices` prints: no device; "a"; "a;b"; "a" offline and
\* "b"; a blank line; e-acute
AdbOutputs ==
    {Str_header \o <<LF>>,
     Str_header \o <<LF>> \o Str_a \o <<TAB>> \o Str_device \o <<LF>>,
     Str_header \o <<LF>> \o <<97, 59, 98>> \o <<TAB>> \o Str_device \o <<LF>>,
     Str_header \o <<LF>> \o Str_a \o <<TAB>> \o <<111, 102, 102, 108, 105, 110, 101>> \o <<LF>>
                \o Str_b \o <<TAB>> \o Str_device \o <<LF>>,
     Str_header \o <<LF, LF>>,
     Str_header \o <<LF>> \o <<233>> \o <<SP, SP>> \o Str_device \o <<LF>>}

\* identifiers the front end passes to these commands: those of RawIds, e-acute,
\* "1.2:5" and "$x"
CommandIds == RawIds \cup {<<233>>, <<49, 46, 50, 58, 53>>, <<36, 120>>}

Adb(cmd, dev, what) == Cmd(<<cmd, 1>>, "adb", dev, what)

Call(cmd, arg, ret, value, argv) ==
    /\ last_call' = [cmd |-> cmd, arg |-> arg, ret |-> ret, value |-> value, argv |-> argv]
    /\ UNCHANGED <<device_id, pc, loc, child, events, commands, fn_in, fn_out>>

check_adb(run, output, model_found) ==
    LET devices == parse_adb_devices(output)
        id == devices[1][1]
        listing == {Adb("check_adb", None, "devices")}
        props == {Adb("check_adb", Some(id), prop) :
                    prop \in {"getprop ro.product.model", "getprop ro.product.brand",
                              "getprop ro.build.version.release"}}
    IN  CASE run = "spawn_error" ->
               Call("check_adb", None, RetErr("Failed to run ADB"), None, listing)
          [] run = "failed" ->
               Call("check_adb", None, RetErr("ADB command failed."), None, listing)
          [] run = "ok" /\ devices = <<>> ->
               Call("check_adb", None, RetErr("No device connected."), None, listing)
          [] run = "ok" /\ devices # <<>> /\ ~model_found ->
               Call("check_adb", None, RetErr("Connected device not responding."), None,
                    listing \cup props)
          [] run = "ok" /\ devices # <<>> /\ model_found ->
               Call("check_adb", None, RetOk("DeviceInfo"), Some(id), listing \cup props)

get_storage_info(raw, run) ==
    LET s == sanitize_device_id(raw)
        df == {Adb("get_storage_info", Some(s.val), "df /sdcard")}
    IN  IF ~s.ok THEN Call("get_storage_info", Some(raw), RetErr(s.err), None, {})
        ELSE CASE run = "spawn_error" ->
                    Call("get_storage_info", Some(raw), RetErr("Failed to get storage info"),
                         None, df)
               [] run = "failed" ->
                    Call("get_storage_info", Some(raw), RetErr("Failed to read storage info."),
                         None, df)
               [] run = "bad_output" ->
                    Call("get_storage_info", Some(raw), RetErr("Unexpected df output format"),
                         None, df)
               [] run = "ok" ->
                    Call("get_storage_info", Some(raw), RetOk("StorageInfo"), None, df)

Intents == <<"android.settings.MASTER_CLEAR", "android.settings.BACKUP_AND_RESET_SETTINGS",
             "android.settings.PRIVACY_SETTINGS", "android.settings.INTERNAL_STORAGE_SETTINGS">>

\* opened: the first intent that opens (5 when none does, and the Settings
\* fallback is tried with the result `run`)
run_factory_reset(raw, is_final, opened, run) ==
    LET s == sanitize_device_id(raw)
        tried == {Adb("run_factory_reset", Some(s.val), Intents[i]) :
                    i \in 1..(IF opened <= 4 THEN opened ELSE 4)}
        fallback == {Adb("run_factory_reset", Some(s.val), "com.android.settings/.Settings")}
        phase == IF is_final THEN "final" ELSE "initial"
    IN  IF ~s.ok THEN Call("run_factory_reset", Some(raw), RetErr(s.err), None, {})
        ELSE IF opened <= 4
        THEN Call("run_factory_reset", Some(raw), RetOk(phase), None, tried)
        ELSE CASE run = "spawn_error" ->
                    Call("run_factory_reset", Some(raw), RetErr("Failed to open settings"),
                         None, tried \cup fallback)
               [] run = "failed" ->
                    Call("run_factory_reset", Some(raw), RetErr("Could not open settings."),
                         None, tried \cup fallback)
               [] run = "ok" ->
                    Call("run_factory_reset", Some(raw), RetOk(phase), None,
                         tried \cup fallback)

check_device_connected(raw, run, output) ==
    LET s == sanitize_device_id(raw)
        devices == parse_adb_devices(output)
        listing == {Adb("check_device_connected", None, "devices")}
    IN  IF ~s.ok THEN Call("check_device_connected", Some(raw), RetErr(s.err), None, {})
        ELSE IF run = "spawn_error"
        THEN Call("check_device_connected", Some(raw), RetErr("Failed to check devices"),
                  None, listing)
        ELSE Call("check_device_connected", Some(raw), RetOk("bool"),
                  Some(\E i \in 1..Len(devices) : devices[i][1] = s.val), listing)

revoke_adb(raw, run) ==
    LET s == sanitize_device_id(raw)
        put == {Adb("revoke_adb", Some(s.val), "settings put global adb_enabled 0")}
    IN  IF ~s.ok THEN Call("revoke_adb", Some(raw), RetErr(s.err), None, {})
        ELSE CASE run = "spawn_error" ->
                    Call("revoke_adb", Some(raw), RetErr("Failed to revoke ADB"), None, put)
               [] run = "failed" ->
                    Call("revoke_adb", Some(raw), RetErr("Failed to disable ADB debugging."),
                         None, put)
               [] run = "ok" ->
                    Call("revoke_adb", Some(raw), RetOk("ADB debugging disabled on device."),
                         None, put)

cleanup_wipe_files(raw, run) ==
    LET s == sanitize_device_id(raw)
        rm == {Adb("cleanup_wipe_files", Some(s.val), "rm -rf /sdcard/wipe_temp /sdcard/secure_wipe_*")}
    IN  IF ~s.ok THEN Call("cleanup_wipe_files", Some(raw), RetErr(s.err), None, {})
        ELSE CASE run = "spawn_error" ->
                    Call("cleanup_wipe_files", Some(raw), RetErr("Failed to cleanup"), None, rm)
               [] run = "failed" ->
                    Call("cleanup_wipe_files", Some(raw),
                         RetOk("Cleanup attempted. Some files may remain."), None, rm)
               [] run = "ok" ->
                    Call("cleanup_wipe_files", Some(raw),
                         RetOk("Temporary wipe files cleaned up."), None, rm)

RunResults == {"spawn_error", "failed", "ok"}

NextCommands ==
    \/ \E run \in RunResults, output \in AdbOutputs, model_found \in BOOLEAN :
          check_adb(run, output, model_found)
    \/ \E raw \in CommandIds, run \in RunResults \cup {"bad_output"} : get_storage_info(raw, run)
    \/ \E raw \in CommandIds, is_final \in BOOLEAN, opened \in 1..5, run \in RunResults :
          run_factory_reset(raw, is_final, opened, run)
    \/ \E raw \in CommandIds, run \in RunResults, output \in AdbOutputs :
          check_device_connected(raw, run, output)
    \/ \E raw \in CommandIds, run \in RunResults : revoke_adb(raw, run)
    \/ \E raw \in CommandIds, run \in RunResults : cleanup_wipe_files(raw, run)

SpecCommands == Init /\ [][NextCommands]_vars

\* C7: every device identifier a command places in a subprocess argument
\* vector is one sanitize_device_id accepts
C7_ArgvSanitized ==
    \A c \in last_call.argv \cup commands :
        c.dev # None => sanitize_device_id(c.dev[1]).ok

=============================================================================
